---- MODULE Spec2Model ----
(***************************************************************************)
(* video2ascii: option parsing, geometry resolution, delay derivation,     *)
(* frame rendering (None / ANSI / Full colour) and timed playback, as      *)
(* implemented in src/video2ascii.cpp.                                     *)
(*                                                                         *)
(* Text is a sequence of one-character strings; the escape character is    *)
(* the token ESC.  C++ doubles are modelled bit-exactly (53-bit mantissa,  *)
(* round-to-nearest-even) for the operations the program performs.         *)
(***************************************************************************)
EXTENDS Integers, Sequences, FiniteSets, TLC

VARIABLES pc, argv, opts, cap, args, asciiFrames, delayMs, it, out, err, exitCode

vars == <<pc, argv, opts, cap, args, asciiFrames, delayMs, it, out, err,
         exitCode>>

(***************************************************************************)
(* Global constants (src/video2ascii.cpp:14-56)                            *)
(***************************************************************************)
asciiChars == <<"@", "%", "#", "*", "+", "=", "-", ":", ".", " ">>
asciiLen == Len(asciiChars)

DEFAULT_TARGET_HEIGHT == 60
DEFAULT_TARGET_WIDTH == 0
MIN_HEIGHT == 20
MIN_WIDTH == 40
MAX_HEIGHT == 120
MAX_WIDTH == 200

DEFAULT_FRAMERATE == 30
MIN_FRAMERATE == 1
MAX_FRAMERATE == 120

ESC == "ESC"
BLACK == <<ESC, "[", "3", "0", "m">>
RED == <<ESC, "[", "3", "1", "m">>
GREEN == <<ESC, "[", "3", "2", "m">>
BLUE == <<ESC, "[", "3", "4", "m">>
WHITE == <<ESC, "[", "3", "7", "m">>
BRIGHT_BLACK == <<ESC, "[", "9", "0", "m">>
BRIGHT_RED == <<ESC, "[", "9", "1", "m">>
BRIGHT_GREEN == <<ESC, "[", "9", "2", "m">>
BRIGHT_BLUE == <<ESC, "[", "9", "4", "m">>
BRIGHT_WHITE == <<ESC, "[", "9", "7", "m">>
TRUECOLOR == <<ESC, "[", "3", "8", ";", "2", ";">>
RESET == <<ESC, "[", "0", "m">>

DARK_THRESHOLD == 30
GRAYSCALE_VARIANCE == 20
VERY_BRIGHT == 200
BRIGHT == 120
MEDIUM_BRIGHT == 128

INT_MAX == 2147483647
INT_MIN == (-2147483647) - 1

(***************************************************************************)
(* IEEE-754 binary64 arithmetic, as far as the program uses it.            *)
(* A double is [k, m, e]: k = "fin" is the value 1.m[2..53] * 2^e with     *)
(* m[1] = 1 (bits most significant first); "zero", "inf", "nan" carry      *)
(* no mantissa.  Only non-negative values occur.                           *)
(***************************************************************************)
MantBits == 53

DZero == [k |-> "zero", m |-> <<>>, e |-> 0]
DInf == [k |-> "inf", m |-> <<>>, e |-> 0]
DNaN == [k |-> "nan", m |-> <<>>, e |-> 0]
DFin(m, e) == [k |-> "fin", m |-> m, e |-> e]

RECURSIVE Norm(_, _, _)
\* scale a/b by powers of two until d <= n < 2d; e is the binary exponent
Norm(a, b, e) ==
    IF a < b THEN Norm(2 * a, b, e - 1)
    ELSE IF a >= 2 * b THEN Norm(a, 2 * b, e + 1)
    ELSE [n |-> a, d |-> b, e |-> e]

Pow2Table ==
    <<1, 2, 4, 8, 16, 32, 64, 128, 256, 512, 1024, 2048, 4096, 8192, 16384,
      32768, 65536, 131072, 262144, 524288, 1048576, 2097152, 4194304,
      8388608, 16777216, 33554432, 67108864, 134217728, 268435456,
      536870912, 1073741824>>

Pow2(n) == Pow2Table[n + 1]

\* the w low bits of n, most significant first
Bits(n, w) == [i \in 1..w |-> (n \div Pow2(w - i)) % 2]

RECURSIVE BitsValue(_, _, _)
\* the number bs[lo..hi] denotes in binary (at most 31 bits)
BitsValue(bs, lo, hi) ==
    IF lo > hi THEN 0
    ELSE IF lo = hi THEN bs[lo]
    ELSE LET mid == (lo + hi) \div 2
         IN  BitsValue(bs, lo, mid) * Pow2(hi - mid) + BitsValue(bs, mid + 1, hi)

BitsToInt(bs) == BitsValue(bs, 1, Len(bs))

\* 52 further quotient bits of r/d (r < d < 2^17) and the remainder, by long
\* division in four steps of 13 bits
DivBits(r, d) ==
    LET t1 == r * Pow2(13)
        t2 == (t1 % d) * Pow2(13)
        t3 == (t2 % d) * Pow2(13)
        t4 == (t3 % d) * Pow2(13)
    IN  [bits |-> Bits(t1 \div d, 13) \o Bits(t2 \div d, 13)
                    \o Bits(t3 \div d, 13) \o Bits(t4 \div d, 13),
         rem |-> t4 % d]

\* the mantissa m rounded up by one unit in the last place
RoundUp(m, e) ==
    IF \A i \in 1..Len(m) : m[i] = 1
    THEN DFin([i \in 1..Len(m) |-> IF i = 1 THEN 1 ELSE 0], e + 1)
    ELSE LET z == CHOOSE i \in 1..Len(m) :
                    m[i] = 0 /\ \A j \in (i + 1)..Len(m) : m[j] = 1
         IN  DFin([i \in 1..Len(m) |->
                    IF i < z THEN m[i] ELSE IF i = z THEN 1 ELSE 0], e)

\* the double nearest to a/b, for integers 0 <= a, b < 2^16 (exact doubles)
DDiv(a, b) ==
    IF b = 0 THEN (IF a = 0 THEN DNaN ELSE DInf)
    ELSE IF a = 0 THEN DZero
    ELSE LET nz == Norm(a, b, 0)
             q == DivBits(nz.n - nz.d, nz.d)
             m == <<1>> \o q.bits
             up == \/ 2 * q.rem > nz.d
                   \/ 2 * q.rem = nz.d /\ m[MantBits] = 1
         IN  IF up THEN RoundUp(m, nz.e) ELSE DFin(m, nz.e)

\* the number of significant bits of 0 <= n < 2^30
BitLen(n) ==
    IF n = 0 THEN 0 ELSE CHOOSE k \in 1..30 : Pow2(k - 1) <= n /\ n < Pow2(k)

\* the exact product h * m of an integer 0 < h < 2^12 and a 53-bit mantissa,
\* as bits: schoolbook multiplication on limbs of 18, 18 and 17 bits
MulBits(h, m) ==
    LET l2 == BitsToInt(SubSeq(m, 1, 18))
        l1 == BitsToInt(SubSeq(m, 19, 36))
        l0 == BitsToInt(SubSeq(m, 37, 53))
        p0 == h * l0
        p1 == h * l1 + p0 \div Pow2(17)
        p2 == h * l2 + p1 \div Pow2(18)
    IN  Bits(p2, BitLen(p2)) \o Bits(p1 % Pow2(18), 18)
            \o Bits(p0 % Pow2(17), 17)

\* the double nearest to h * x, for an integer h >= 0 and a double x
DMul(h, x) ==
    IF x.k = "nan" THEN DNaN
    ELSE IF x.k = "inf" THEN (IF h = 0 THEN DNaN ELSE DInf)
    ELSE IF x.k = "zero" \/ h = 0 THEN DZero
    ELSE LET full == MulBits(h, x.m)
             L == Len(full) - MantBits
             kept == SubSeq(full, 1, MantBits)
             dropped == SubSeq(full, MantBits + 1, Len(full))
             guard == L > 0 /\ dropped[1] = 1
             sticky == \E i \in 2..L : dropped[i] = 1
             up == guard /\ (sticky \/ kept[MantBits] = 1)
         IN  IF up THEN RoundUp(kept, x.e + L) ELSE DFin(kept, x.e + L)

\* x / 0.5: exact, the exponent grows by one
DDivHalf(x) == IF x.k = "fin" THEN DFin(x.m, x.e + 1) ELSE x

\* static_cast<int>(x) is defined iff the truncated value fits an int
DCastable(x) == x.k = "zero" \/ (x.k = "fin" /\ x.e <= 30)

DTrunc(x) ==
    IF x.k = "zero" \/ x.e < 0 THEN 0
    ELSE BitsToInt(SubSeq(x.m, 1, x.e + 1))

\* what static_cast<int> of inf, NaN or an out-of-range value can produce
\* (undefined behaviour: x86 gives INT_MIN, saturating targets 0 or INT_MAX)
UBInts == {INT_MIN, 0, INT_MAX}

CastInt(x) == IF DCastable(x) THEN {DTrunc(x)} ELSE UBInts

\* variant: the upper bound is not applied
clamp_noUpper(v, lo, hi) == IF v < lo THEN lo ELSE v

clamp(v, lo, hi) == IF v < lo THEN lo ELSE IF hi < v THEN hi ELSE v


(***************************************************************************)
(* Per-pixel primitives (src/video2ascii.cpp:267-307)                      *)
(***************************************************************************)
brightnessToAscii(brightness) ==
    LET index == (brightness * (asciiLen - 1)) \div 255
    IN  asciiChars[index + 1]

Max3(r, g, b) == IF r >= g /\ r >= b THEN r ELSE IF g >= b THEN g ELSE b
Min3(r, g, b) == IF r <= g /\ r <= b THEN r ELSE IF g <= b THEN g ELSE b

\* variant: the bright variant already at MEDIUM_BRIGHT
rgbToAnsiColor_geBright(r, g, b, brightness) ==
    IF brightness < DARK_THRESHOLD THEN BLACK
    ELSE IF Max3(r, g, b) - Min3(r, g, b) < GRAYSCALE_VARIANCE
         THEN IF brightness > VERY_BRIGHT THEN BRIGHT_WHITE
              ELSE IF brightness > BRIGHT THEN WHITE
              ELSE BRIGHT_BLACK
    ELSE LET bright == brightness >= MEDIUM_BRIGHT
         IN  IF r > g /\ r > b THEN (IF bright THEN BRIGHT_RED ELSE RED)
             ELSE IF g > r /\ g > b THEN (IF bright THEN BRIGHT_GREEN ELSE GREEN)
             ELSE IF b > r /\ b > g THEN (IF bright THEN BRIGHT_BLUE ELSE BLUE)
             ELSE WHITE

rgbToAnsiColor(r, g, b, brightness) ==
    IF brightness < DARK_THRESHOLD THEN BLACK
    ELSE IF Max3(r, g, b) - Min3(r, g, b) < GRAYSCALE_VARIANCE
         THEN IF brightness > VERY_BRIGHT THEN BRIGHT_WHITE
              ELSE IF brightness > BRIGHT THEN WHITE
              ELSE BRIGHT_BLACK
    ELSE LET bright == brightness > MEDIUM_BRIGHT
         IN  IF r > g /\ r > b THEN (IF bright THEN BRIGHT_RED ELSE RED)
             ELSE IF g > r /\ g > b THEN (IF bright THEN BRIGHT_GREEN ELSE GREEN)
             ELSE IF b > r /\ b > g THEN (IF bright THEN BRIGHT_BLUE ELSE BLUE)
             ELSE WHITE

DigitChars == <<"0", "1", "2", "3", "4", "5", "6", "7", "8", "9">>

RECURSIVE to_string(_)
\* std::to_string of a non-negative int: decimal, no leading zeros
to_string(n) ==
    IF n < 10 THEN <<DigitChars[n + 1]>>
    ELSE to_string(n \div 10) \o <<DigitChars[(n % 10) + 1]>>

\* variant: channels in the decoder's B, G, R order
rgbToTrueColor_bgr(r, g, b, brightness) ==
    TRUECOLOR \o to_string(b) \o <<";">> \o to_string(g) \o <<";">>
        \o to_string(r) \o <<"m">> \o <<brightnessToAscii(brightness)>> \o RESET

rgbToTrueColor(r, g, b, brightness) ==
    TRUECOLOR \o to_string(r) \o <<";">> \o to_string(g) \o <<";">>
        \o to_string(b) \o <<"m">> \o <<brightnessToAscii(brightness)>> \o RESET

(***************************************************************************)
(* Rendering of one decoded frame (loadFrames, src/video2ascii.cpp:213-255)*)
(* A decoded frame is a non-empty sequence of RGB samples; the external    *)
(* resize hands the renderer a height x width grid sampled from it, and    *)
(* the external grey conversion uses the integer BT.601 luma.              *)
(***************************************************************************)
resizedColor(frame, height, width) ==
    [y \in 0..(height - 1) |->
        [x \in 0..(width - 1) |-> frame[((y * width + x) % Len(frame)) + 1]]]

cvtGray(p) == (p.r * 4899 + p.g * 9617 + p.b * 1868 + 8192) \div 16384

resizedGray(frame, height, width) ==
    [y \in 0..(height - 1) |->
        [x \in 0..(width - 1) |->
            cvtGray(frame[((y * width + x) % Len(frame)) + 1])]]

AnsiUnit(px) ==
    LET brightness == clamp((px.r + px.g + px.b) \div 3, 0, 255)
    IN  rgbToAnsiColor(px.r, px.g, px.b, brightness)
            \o <<brightnessToAscii(brightness)>> \o RESET

FullUnit(px) ==
    LET brightness == clamp((px.r + px.g + px.b) \div 3, 0, 255)
    IN  rgbToTrueColor(px.r, px.g, px.b, brightness)

\* variant: scaled by asciiLen / 256 instead of (asciiLen - 1) / 255
NoneUnit_scale256(px) ==
    LET brightness == clamp(px, 0, 255)
        index == (brightness * asciiLen) \div 256
    IN  <<asciiChars[index + 1]>>

NoneUnit(px) ==
    LET brightness == clamp(px, 0, 255)
        index == (brightness * (asciiLen - 1)) \div 255
    IN  <<asciiChars[index + 1]>>

RECURSIVE Concat(_, _, _)
\* ss[lo] \o ... \o ss[hi]
Concat(ss, lo, hi) ==
    IF lo > hi THEN <<>>
    ELSE IF lo = hi THEN ss[lo]
    ELSE LET mid == (lo + hi) \div 2
         IN  Concat(ss, lo, mid) \o Concat(ss, mid + 1, hi)

\* what the inner loop streams for the pixel at row y, column x
RenderUnit(frame, colorMode, height, width, y, x) ==
    IF colorMode = "ANSI"
        THEN AnsiUnit(resizedColor(frame, height, width)[y][x])
    ELSE IF colorMode = "Full"
        THEN FullUnit(resizedColor(frame, height, width)[y][x])
    ELSE NoneUnit(resizedGray(frame, height, width)[y][x])

\* variant: the inner loop stops one column early
RenderRow_shortRow(frame, colorMode, height, width, y) ==
    Concat([x \in 1..(width - 1) |->
                RenderUnit(frame, colorMode, height, width, y, x - 1)],
           1, width - 1) \o <<"\n">>

\* for (x = 0; x < width; x++) ...; frameStream << '\n'
RenderRow(frame, colorMode, height, width, y) ==
    Concat([x \in 1..width |->
                RenderUnit(frame, colorMode, height, width, y, x - 1)],
           1, width) \o <<"\n">>

\* frameStream.str() after for (y = 0; y < height; y++)
RenderFrame(frame, colorMode, height, width) ==
    Concat([y \in 1..height |->
                RenderRow(frame, colorMode, height, width, y - 1)],
           1, height)

(***************************************************************************)
(* Command-line options (getOptions, src/video2ascii.cpp:124-184).         *)
(* argv holds argv[1..argc-1]; every argument is a sequence of characters. *)
(***************************************************************************)
OPT_COLOR == <<"-", "-", "c", "o", "l", "o", "r", "=">>
OPT_HEIGHT == <<"-", "-", "h", "e", "i", "g", "h", "t", "=">>
OPT_WIDTH == <<"-", "-", "w", "i", "d", "t", "h", "=">>
OPT_FRAMERATE == <<"-", "-", "f", "r", "a", "m", "e", "r", "a", "t", "e", "=">>
OPT_HELP == <<"-", "-", "h", "e", "l", "p">>

\* strncmp(arg, prefix, Len(prefix)) == 0
strncmp0(arg, prefix) ==
    Len(arg) >= Len(prefix) /\ SubSeq(arg, 1, Len(prefix)) = prefix

\* argv[i] + n
Tail_n(arg, n) == SubSeq(arg, n + 1, Len(arg))

IsDigit(c) == \E d \in 1..10 : DigitChars[d] = c
DigitVal(c) == (CHOOSE d \in 1..10 : DigitChars[d] = c) - 1

IsSpace(c) == c = " "

\* the number of leading blanks of s
LeadBlanks(s) ==
    CHOOSE k \in 0..Len(s) :
        /\ \A i \in 1..k : IsSpace(s[i])
        /\ k = Len(s) \/ ~IsSpace(s[k + 1])

\* the number of leading digits of s
LeadDigits(s) ==
    CHOOSE k \in 0..Len(s) :
        /\ \A i \in 1..k : IsDigit(s[i])
        /\ k = Len(s) \/ ~IsDigit(s[k + 1])

\* std::stoi: skips leading blanks, takes an optional sign and the leading
\* digits, ignores whatever follows them; throws (ok = FALSE) when there is
\* no digit or the value does not fit an int
stoi(s) ==
    LET t == Tail_n(s, LeadBlanks(s))
        signed == t # <<>> /\ t[1] \in {"+", "-"}
        neg == t # <<>> /\ t[1] = "-"
        body == IF signed THEN Tail(t) ELSE t
        n == LeadDigits(body)
        acc[i \in 0..n] ==
            IF i = 0 THEN [val |-> 0, over |-> FALSE]
            ELSE LET p == acc[i - 1]
                     d == DigitVal(body[i])
                     fits == IF neg THEN p.val >= (INT_MIN + d + 9) \div 10
                                    ELSE p.val <= (INT_MAX - d) \div 10
                 IN  IF p.over \/ ~fits THEN [val |-> 0, over |-> TRUE]
                     ELSE [val |-> IF neg THEN p.val * 10 - d
                                          ELSE p.val * 10 + d,
                           over |-> FALSE]
    IN  IF n = 0 \/ acc[n].over THEN [ok |-> FALSE, val |-> 0]
        ELSE [ok |-> TRUE, val |-> acc[n].val]

DefaultOptions ==
    [colorMode |-> "None", targetHeight |-> DEFAULT_TARGET_HEIGHT,
     targetWidth |-> DEFAULT_TARGET_WIDTH, framerate |-> -1]

Ret(rc, o, msg) == [rc |-> rc, opts |-> o, err |-> msg]

RECURSIVE getOptionsFrom(_, _, _)
\* the for loop of getOptions from argument i on: return code, options, and
\* the message written to stderr
getOptionsFrom(o, av, i) ==
    IF i > Len(av) THEN Ret(0, o, "")
    ELSE LET a == av[i] IN
      IF strncmp0(a, OPT_COLOR) THEN
        LET mode == Tail_n(a, 8) IN
          IF mode = <<"n", "o", "n", "e">>
            THEN getOptionsFrom([o EXCEPT !.colorMode = "None"], av, i + 1)
          ELSE IF mode = <<"a", "n", "s", "i">>
            THEN getOptionsFrom([o EXCEPT !.colorMode = "ANSI"], av, i + 1)
          ELSE IF mode = <<"f", "u", "l", "l">>
            THEN getOptionsFrom([o EXCEPT !.colorMode = "Full"], av, i + 1)
          ELSE Ret(1, o, "Unknown color mode")
      ELSE IF strncmp0(a, OPT_HEIGHT) THEN
        LET v == stoi(Tail_n(a, 9)) IN
          IF ~v.ok THEN Ret(1, o, "Error: Invalid height value")
          ELSE IF v.val < MIN_HEIGHT \/ v.val > MAX_HEIGHT
            THEN Ret(1, o, "Error: Target height is out of bounds")
          ELSE getOptionsFrom([o EXCEPT !.targetHeight = v.val], av, i + 1)
      ELSE IF strncmp0(a, OPT_WIDTH) THEN
        LET v == stoi(Tail_n(a, 8)) IN
          IF ~v.ok THEN Ret(1, o, "Error: Invalid width value")
          ELSE IF v.val < MIN_WIDTH \/ v.val > MAX_WIDTH
            THEN Ret(1, o, "Error: Target width is out of bounds")
          ELSE getOptionsFrom([o EXCEPT !.targetWidth = v.val], av, i + 1)
      ELSE IF strncmp0(a, OPT_FRAMERATE) THEN
        LET v == stoi(Tail_n(a, 12)) IN
          IF ~v.ok THEN Ret(1, o, "Error: Invalid framerate value")
          ELSE IF v.val < MIN_FRAMERATE \/ v.val > MAX_FRAMERATE
            THEN Ret(1, o, "Error: Target framerate is out of bounds")
          ELSE getOptionsFrom([o EXCEPT !.framerate = v.val], av, i + 1)
      ELSE IF a = OPT_HELP THEN Ret(1, o, "Usage (help)")
      ELSE Ret(1, o, "Unknown option")

\* getOptions(opts, argc, argv): argv[1] is the video path, options follow
getOptions(o, av) == getOptionsFrom(o, av, 2)

(***************************************************************************)
(* The program: main (src/video2ascii.cpp:84-120) and the functions it     *)
(* calls, one action per step.  pc is the position of the single thread.   *)
(***************************************************************************)
Event(op, text, ms) == [op |-> op, text |-> text, ms |-> ms]

Exit(code, msg) ==
    /\ pc' = "exit"
    /\ exitCode' = code
    /\ err' = msg

\* main: argc < 2, or argv[1] is --help
MainArgs ==
    /\ pc = "main"
    /\ IF Len(argv) < 1 THEN Exit(1, "Usage")
       ELSE IF argv[1] = OPT_HELP THEN Exit(1, "Usage (help)")
       ELSE pc' = "getOptions" /\ UNCHANGED <<exitCode, err>>
    /\ UNCHANGED <<argv, opts, cap, args, asciiFrames, delayMs, it, out>>

GetOptions ==
    /\ pc = "getOptions"
    /\ LET r == getOptions(opts, argv)
       IN  /\ opts' = r.opts
           /\ IF r.rc = 1 THEN Exit(1, r.err)
              ELSE pc' = "open" /\ UNCHANGED <<exitCode, err>>
    /\ UNCHANGED <<argv, cap, args, asciiFrames, delayMs, it, out>>

\* cv::VideoCapture cap(opts.videoPath); if (!cap.isOpened()) return 1
OpenVideo ==
    /\ pc = "open"
    /\ IF ~cap.opened THEN Exit(1, "Error: Could not open video")
       ELSE pc' = "getTargetDimensions" /\ UNCHANGED <<exitCode, err>>
    /\ UNCHANGED <<argv, opts, cap, args, asciiFrames, delayMs, it, out>>

GetTargetDimensions ==
    /\ pc = "getTargetDimensions"
    /\ LET videoAspect == DDiv(cap.width, cap.height)
           computed == DDivHalf(DMul(opts.targetHeight, videoAspect))
       IN  \E w \in (IF opts.targetWidth <= 0 THEN CastInt(computed)
                                               ELSE {opts.targetWidth}) :
             opts' = [opts EXCEPT
                        !.targetHeight = clamp(@, MIN_HEIGHT, MAX_HEIGHT),
                        !.targetWidth = clamp(w, MIN_WIDTH, MAX_WIDTH)]
    /\ pc' = "getDelayMs"
    /\ UNCHANGED <<argv, cap, args, asciiFrames, delayMs, it, out, err, exitCode>>

getDelayMs(c, o) ==
    IF o.framerate # -1 THEN DDiv(1000, o.framerate)
    ELSE DDiv(1000, IF c.fps <= 0 THEN DEFAULT_FRAMERATE ELSE c.fps)

\* double delayMs = getDelayMs(cap, opts); then the call of loadFrames binds
\* its height and width parameters
GetDelayMs ==
    /\ pc = "getDelayMs"
    /\ delayMs' = getDelayMs(cap, opts)
    /\ args' = [height |-> opts.targetHeight, width |-> opts.targetWidth]
    /\ pc' = "loadFrames"
    /\ UNCHANGED <<argv, opts, cap, asciiFrames, it, out, err, exitCode>>

\* variant: the rendered frame is put in front of the buffer
LoadFrame_prepend ==
    /\ pc = "loadFrames"
    /\ cap.pos < Len(cap.frames)
    /\ asciiFrames' = <<RenderFrame(cap.frames[cap.pos + 1], opts.colorMode,
                                    args.height, args.width)>> \o asciiFrames
    /\ cap' = [cap EXCEPT !.pos = @ + 1]
    /\ UNCHANGED <<pc, argv, opts, args, delayMs, it, out, err, exitCode>>

\* one iteration of while (cap.read(frame)): render and push_back
LoadFrame ==
    /\ pc = "loadFrames"
    /\ cap.pos < Len(cap.frames)
    /\ asciiFrames' = Append(asciiFrames,
            RenderFrame(cap.frames[cap.pos + 1], opts.colorMode,
                        args.height, args.width))
    /\ cap' = [cap EXCEPT !.pos = @ + 1]
    /\ UNCHANGED <<pc, argv, opts, args, delayMs, it, out, err, exitCode>>

\* cap.read(frame) reports end of stream; main calls animateAscii
LoadEnd ==
    /\ pc = "loadFrames"
    /\ cap.pos >= Len(cap.frames)
    /\ pc' = "animate"
    /\ it' = 1
    /\ UNCHANGED <<argv, opts, cap, args, asciiFrames, delayMs, out, err,
                   exitCode>>

\* clearScreen() for the frame the range-for is at
ClearScreen ==
    /\ pc = "animate"
    /\ it <= Len(asciiFrames)
    /\ out' = Append(out, Event("clear", <<>>, 0))
    /\ pc' = "write"
    /\ UNCHANGED <<argv, opts, cap, args, asciiFrames, delayMs, it, err,
                   exitCode>>

\* std::cout << frameStr
WriteFrame ==
    /\ pc = "write"
    /\ out' = Append(out, Event("write", asciiFrames[it], 0))
    /\ pc' = "flush"
    /\ UNCHANGED <<argv, opts, cap, args, asciiFrames, delayMs, it, err,
                   exitCode>>

\* << std::flush
Flush ==
    /\ pc = "flush"
    /\ out' = Append(out, Event("flush", <<>>, 0))
    /\ pc' = "sleep"
    /\ UNCHANGED <<argv, opts, cap, args, asciiFrames, delayMs, it, err,
                   exitCode>>

\* variant: the loop advances by two frames
Sleep_skip ==
    /\ pc = "sleep"
    /\ \E ms \in CastInt(delayMs) :
          out' = Append(out, Event("sleep", <<>>, ms))
    /\ it' = it + 2
    /\ pc' = "animate"
    /\ UNCHANGED <<argv, opts, cap, args, asciiFrames, delayMs, err, exitCode>>

\* sleep_for(milliseconds(static_cast<int>(delayMs))), then the next frame
Sleep ==
    /\ pc = "sleep"
    /\ \E ms \in CastInt(delayMs) :
          out' = Append(out, Event("sleep", <<>>, ms))
    /\ it' = it + 1
    /\ pc' = "animate"
    /\ UNCHANGED <<argv, opts, cap, args, asciiFrames, delayMs, err, exitCode>>

\* the range-for is past the last frame: animateAscii returns, main returns 0
AnimateEnd ==
    /\ pc = "animate"
    /\ it > Len(asciiFrames)
    /\ pc' = "exit"
    /\ exitCode' = 0
    /\ UNCHANGED <<argv, opts, cap, args, asciiFrames, delayMs, it, out, err>>


(***************************************************************************)
(* Inputs                                                                  *)
(***************************************************************************)
MaxFrames == 2
MaxH == 2
MaxW == 3

Modes == {"None", "ANSI", "Full"}

SeqsUpTo(S, n) == UNION {[1..k -> S] : k \in 0..n}

Px(r, g, b) == [r |-> r, g |-> g, b |-> b]

Video(opened, w, h, fps, frames) ==
    [opened |-> opened, width |-> w, height |-> h, fps |-> fps,
     frames |-> frames, pos |-> 0]

NoArgs == [height |-> 0, width |-> 0]

Start(p, av, o, c, a) ==
    /\ pc = p
    /\ argv = av
    /\ opts = o
    /\ cap = c
    /\ args = a
    /\ asciiFrames = <<>>
    /\ delayMs = DZero
    /\ it = 0
    /\ out = <<>>
    /\ err = ""
    /\ exitCode = -1

\* ---- the whole program ----
VIDEO == <<"v">>

\* command lines getOptions accepts, and command lines it rejects

AcceptedArgvs ==
    { <<VIDEO>>,
      <<VIDEO, OPT_COLOR \o <<"n", "o", "n", "e">>, OPT_HEIGHT \o <<"2", "0">>>>,
      <<VIDEO, OPT_COLOR \o <<"a", "n", "s", "i">>, OPT_HEIGHT \o <<"2", "0">>>>,
      <<VIDEO, OPT_COLOR \o <<"f", "u", "l", "l">>, OPT_HEIGHT \o <<"2", "0">>,
        OPT_WIDTH \o <<"4", "0">>, OPT_FRAMERATE \o <<"2", "5">>>>,
      <<VIDEO, OPT_HEIGHT \o <<"2", "1">>, OPT_WIDTH \o <<"4", "1">>>>,
      <<VIDEO, OPT_HEIGHT \o <<" ", "+", "2", "0">>,
        OPT_FRAMERATE \o <<"3", "0">>>>,
      <<VIDEO, OPT_HEIGHT \o <<"2", "0">>, OPT_FRAMERATE \o <<"1", "2", "0">>>>,
      <<VIDEO, OPT_HEIGHT \o <<"2", "0">>, OPT_FRAMERATE \o <<"1">>>>,
      <<VIDEO, OPT_HEIGHT \o <<"1", "2", "0">>, OPT_HEIGHT \o <<"2", "0">>>>,
      <<VIDEO, OPT_HEIGHT \o <<"2", "0", "p", "x">>>> }

RejectedArgvs ==
    { <<>>,
      <<OPT_HELP>>,
      <<VIDEO, OPT_HELP>>,
      <<VIDEO, <<"-", "-", "f", "a", "s", "t">>>>,
      <<VIDEO, <<"-", "-", "c", "o", "l", "o", "r">>>>,
      <<VIDEO, OPT_COLOR \o <<"r", "g", "b">>>>,
      <<VIDEO, OPT_COLOR>>,
      <<VIDEO, OPT_HEIGHT \o <<"1", "9">>>>,
      <<VIDEO, OPT_HEIGHT \o <<"1", "2", "1">>>>,
      <<VIDEO, OPT_HEIGHT \o <<"a", "b", "c">>>>,
      <<VIDEO, OPT_HEIGHT>>,
      <<VIDEO, OPT_HEIGHT \o <<"-", "2", "0">>>>,
      <<VIDEO, OPT_HEIGHT \o <<"9", "9", "9", "9", "9", "9", "9", "9", "9", "9">>>>,
      <<VIDEO, OPT_WIDTH \o <<"3", "9">>>>,
      <<VIDEO, OPT_WIDTH \o <<"2", "0", "1">>>>,
      <<VIDEO, OPT_WIDTH \o <<"0">>>>,
      <<VIDEO, OPT_WIDTH \o <<"w">>>>,
      <<VIDEO, OPT_FRAMERATE \o <<"0">>>>,
      <<VIDEO, OPT_FRAMERATE \o <<"1", "2", "1">>>>,
      <<VIDEO, OPT_FRAMERATE \o <<"-", "1">>>>,
      <<VIDEO, OPT_FRAMERATE \o <<"f", "p", "s">>>>,
      <<VIDEO, OPT_HEIGHT \o <<"2", "0">>, OPT_WIDTH \o <<"x">>>>,
      <<VIDEO, OPT_COLOR \o <<"A", "N", "S", "I">>, OPT_HEIGHT \o <<"2", "0">>>> }

Argvs == AcceptedArgvs \cup RejectedArgvs

MainFrames == { <<Px(200, 20, 20)>>, <<Px(12, 34, 56), Px(250, 250, 250)>> }

MainVideos ==
    {Video(FALSE, 0, 0, 0, <<>>)} \cup
    {Video(TRUE, d[1], d[2], fps, fs) :
        d \in {<<1, 3>>}, fps \in {0, 25},
        fs \in SeqsUpTo(MainFrames, MaxFrames)}

Init ==
    \E av \in Argvs, c \in MainVideos :
        Start("main", av, DefaultOptions, c, NoArgs)

Next ==
    \/ MainArgs
    \/ GetOptions
    \/ OpenVideo
    \/ GetTargetDimensions
    \/ GetDelayMs
    \/ LoadFrame
    \/ LoadEnd
    \/ ClearScreen
    \/ WriteFrame
    \/ Flush
    \/ Sleep
    \/ AnimateEnd

Spec == Init /\ [][Next]_vars

\* ---- geometry and delay on every validated option value ----
GeomDims ==
    { <<16, 9>>, <<1920, 1080>>, <<4, 3>>, <<640, 480>>, <<1, 1>>, <<9, 16>>,
      <<17, 7>>, <<510, 210>>, <<4000, 3>>, <<3, 4000>>, <<1, 49>>,
      <<0, 5>>, <<5, 0>>, <<0, 0>> }

GeomOptions ==
    [colorMode : {"None"}, targetHeight : MIN_HEIGHT..MAX_HEIGHT,
     targetWidth : {DEFAULT_TARGET_WIDTH, MIN_WIDTH, 123, MAX_WIDTH},
     framerate : {-1, 25, 30}]

GeomVideos ==
    {Video(TRUE, d[1], d[2], fps, <<>>) : d \in GeomDims, fps \in {0, 24, 1001}}

InitGeom ==
    \E o \in GeomOptions, c \in GeomVideos :
        Start("getTargetDimensions", <<VIDEO>>, o, c, NoArgs)

NextGeom == GetTargetDimensions \/ GetDelayMs

SpecGeom == InitGeom /\ [][NextGeom]_vars


\* ---- loadFrames on small grids and on single pixels ----
Channel == {0, 12, 20, 29, 30, 34, 56, 100, 103, 119, 120, 121, 134, 150,
            200, 201, 250, 255}

GrayPairs == {<<Px(p[1], p[1], p[1]), Px(p[2], p[2], p[2])>> :
                p \in {q \in (0..255) \X (0..255) : q[1] <= q[2]}}

GridFrames ==
    { <<Px(0, 0, 0), Px(255, 255, 255)>>,
      <<Px(12, 34, 56), Px(200, 20, 20), Px(7, 150, 99)>> }

RenderStart(mode, h, w, frames) ==
    Start("loadFrames", <<VIDEO>>, [DefaultOptions EXCEPT !.colorMode = mode],
          Video(TRUE, w, h, DEFAULT_FRAMERATE, frames),
          [height |-> h, width |-> w])

InitRender ==
    \/ \E mode \in Modes, r \in Channel, g \in Channel, b \in Channel :
          RenderStart(mode, 1, 1, << <<Px(r, g, b)>> >>)
    \/ \E f \in GrayPairs : RenderStart("None", 1, 2, <<f>>)
    \/ \E mode \in Modes, h \in 1..MaxH, w \in 1..MaxW,
          fs \in SeqsUpTo(GridFrames, MaxFrames) :
          RenderStart(mode, h, w, fs)

NextRender == LoadFrame \/ LoadEnd

SpecRender == InitRender /\ [][NextRender]_vars


(***************************************************************************)
(* Properties of the renderer, checked under SpecRender                    *)
(***************************************************************************)
Gradient10 == <<"@", "%", "#", "*", "+", "=", "-", ":", ".", " ">>

\* floor(b * (N - 1) / 255) for N = 10, by its defining inequalities
FloorIndex(b) ==
    CHOOSE i \in 0..9 : 255 * i <= 9 * b /\ 9 * b < 255 * (i + 1)

Glyph(b) == Gradient10[FloorIndex(b) + 1]

\* the position of a glyph in the gradient: larger is sparser
Density(c) == CHOOSE i \in 1..10 : Gradient10[i] = c

\* the pixel the renderer sees at row y, column x (from 0) of frame i
PixelAt(i, y, x) ==
    cap.frames[i][((y * args.width + x) % Len(cap.frames[i])) + 1]

Rendered1x1(mode) ==
    /\ opts.colorMode = mode
    /\ args.height = 1 /\ args.width = 1
    /\ asciiFrames # <<>>

\* C5: in mode None every grey sample b of a rendered row is shown as
\* gradient[floor(9 b / 255)] of the 10-glyph gradient, 0 as '@' and 255 as
\* ' ', the glyph never gets denser as b grows along the row, and it is the
\* glyph brightnessToAscii gives the colour modes for the same brightness.
C5_GlyphMapping ==
    (opts.colorMode = "None" /\ args.height = 1) =>
        \A i \in 1..Len(asciiFrames) :
            LET f == asciiFrames[i]
                b(x) == cvtGray(PixelAt(i, 0, x - 1))
            IN  /\ Len(f) = args.width + 1
                /\ \A x \in 1..args.width :
                      /\ b(x) \in 0..255
                      /\ f[x] = Glyph(b(x))
                      /\ f[x] = brightnessToAscii(b(x))
                      /\ b(x) = 0 => f[x] = "@"
                      /\ b(x) = 255 => f[x] = " "
                /\ \A x1, x2 \in 1..args.width :
                      b(x1) <= b(x2) => Density(f[x1]) <= Density(f[x2])

C5_Witness ==
    /\ opts.colorMode = "None"
    /\ cap.frames = << <<Px(28, 28, 28), Px(29, 29, 29)>> >>
    /\ asciiFrames = << <<"@", "%", "\n">> >>

\* the classification of the claim: the SGR number of the palette colour
AnsiClass(R, G, B) ==
    LET brightness == (R + G + B) \div 3
        hi == CHOOSE c \in {R, G, B} : \A d \in {R, G, B} : c >= d
        lo == CHOOSE c \in {R, G, B} : \A d \in {R, G, B} : c <= d
        variant(dim, brt) == IF brightness > 128 THEN brt ELSE dim
    IN  CASE brightness < 30 -> 30
          [] brightness >= 30 /\ hi - lo < 20 ->
                (CASE brightness > 200 -> 97
                   [] brightness <= 200 /\ brightness > 120 -> 37
                   [] OTHER -> 90)
          [] brightness >= 30 /\ hi - lo >= 20 ->
                (CASE R > G /\ R > B -> variant(31, 91)
                   [] G > R /\ G > B -> variant(32, 92)
                   [] B > R /\ B > G -> variant(34, 94)
                   [] OTHER -> 37)

SGR(n) == <<ESC, "[", DigitChars[(n \div 10) + 1], DigitChars[(n % 10) + 1], "m">>

Palette10 == {30, 31, 32, 34, 37, 90, 91, 92, 94, 97}

\* C6: in mode ANSI the colour escape emitted for a pixel (R, G, B) is the
\* palette colour the priority rules give: black below brightness 30; for a
\* near-grey pixel bright-white / white / bright-black; else the strictly
\* dominant channel, bright above brightness 128; else white.  It is always
\* one of the 10 palette codes.
C6_AnsiClassification ==
    Rendered1x1("ANSI") =>
        \A i \in 1..Len(asciiFrames) :
            LET p == PixelAt(i, 0, 0)
                code == SubSeq(asciiFrames[i], 1, 5)
            IN  /\ code = SGR(AnsiClass(p.r, p.g, p.b))
                /\ \E n \in Palette10 : code = SGR(n)
                /\ (p.r + p.g + p.b) \div 3 < 30 => code = SGR(30)
                /\ p = Px(200, 20, 20) => code = <<ESC, "[", "3", "1", "m">>
                /\ p = Px(150, 150, 150) => code = <<ESC, "[", "3", "7", "m">>
                /\ p = Px(250, 250, 250) => code = <<ESC, "[", "9", "7", "m">>

C6_Witness ==
    /\ Rendered1x1("ANSI")
    /\ cap.frames = << <<Px(150, 134, 100)>> >>
    /\ SubSeq(asciiFrames[1], 1, 5) = <<ESC, "[", "3", "1", "m">>

\* the number a run of decimal digits denotes
DecValue(ds) ==
    LET v[i \in 0..Len(ds)] ==
            IF i = 0 THEN 0 ELSE 10 * v[i - 1] + DigitVal(ds[i])
    IN  v[Len(ds)]

\* ds is the canonical decimal numeral of n
IsNumeral(ds, n) ==
    /\ ds # <<>>
    /\ \A k \in 1..Len(ds) : IsDigit(ds[k])
    /\ Len(ds) > 1 => ds[1] # "0"
    /\ Len(ds) <= 3
    /\ DecValue(ds) = n

\* u is ESC[38;2;R;G;Bm, the glyph c, ESC[0m
IsTrueColorUnit(u, R, G, B, c) ==
    /\ Len(u) >= 7 + 5 + 1 + 5
    /\ SubSeq(u, 1, 7) = <<ESC, "[", "3", "8", ";", "2", ";">>
    /\ SubSeq(u, Len(u) - 5, Len(u)) = <<"m", c, ESC, "[", "0", "m">>
    /\ LET params == SubSeq(u, 8, Len(u) - 6)
           semi == {k \in 1..Len(params) : params[k] = ";"}
       IN  /\ Cardinality(semi) = 2
           /\ LET s1 == CHOOSE k \in semi : \A j \in semi : k <= j
                  s2 == CHOOSE k \in semi : \A j \in semi : k >= j
              IN  /\ IsNumeral(SubSeq(params, 1, s1 - 1), R)
                  /\ IsNumeral(SubSeq(params, s1 + 1, s2 - 1), G)
                  /\ IsNumeral(SubSeq(params, s2 + 1, Len(params)), B)

\* C9: in mode Full the unit emitted for a pixel (R, G, B) is the true-colour
\* escape carrying exactly R, G, B in that order, then the glyph of
\* floor((R + G + B) / 3), then the reset escape.
C9_TrueColorUnit ==
    Rendered1x1("Full") =>
        \A i \in 1..Len(asciiFrames) :
            LET p == PixelAt(i, 0, 0)
                f == asciiFrames[i]
            IN  /\ f[Len(f)] = "\n"
                /\ IsTrueColorUnit(SubSeq(f, 1, Len(f) - 1), p.r, p.g, p.b,
                                   Glyph((p.r + p.g + p.b) \div 3))
                /\ p = Px(12, 34, 56) =>
                      f = <<ESC, "[", "3", "8", ";", "2", ";", "1", "2", ";",
                            "3", "4", ";", "5", "6", "m", Glyph(34),
                            ESC, "[", "0", "m", "\n">>

C9_Witness ==
    /\ Rendered1x1("Full")
    /\ cap.frames = << <<Px(12, 34, 56)>> >>
    /\ Len(asciiFrames[1]) = 22
    /\ asciiFrames[1][17] = "%"


GlyphSet == {Gradient10[i] : i \in 1..10}

\* u has the shape of one per-pixel unit of the colour mode
IsUnit(u, mode) ==
    IF mode = "None" THEN Len(u) = 1 /\ u[1] \in GlyphSet
    ELSE IF mode = "ANSI"
        THEN /\ Len(u) = 10
             /\ \E n \in Palette10 : SubSeq(u, 1, 5) = SGR(n)
             /\ u[6] \in GlyphSet
             /\ SubSeq(u, 7, 10) = <<ESC, "[", "0", "m">>
    ELSE /\ Len(u) >= 18
         /\ SubSeq(u, 1, 7) = <<ESC, "[", "3", "8", ";", "2", ";">>
         /\ u[Len(u) - 5] = "m"
         /\ u[Len(u) - 4] \in GlyphSet
         /\ SubSeq(u, Len(u) - 3, Len(u)) = <<ESC, "[", "0", "m">>
         /\ \A k \in 8..(Len(u) - 6) : IsDigit(u[k]) \/ u[k] = ";"
         /\ Cardinality({k \in 8..(Len(u) - 6) : u[k] = ";"}) = 2

\* the index after the unit that starts at s[i]; 0 when none starts there
UnitEnd(s, i, mode) ==
    LET len == IF mode = "None" THEN 1
               ELSE IF mode = "ANSI" THEN 10
               ELSE LET ms == {j \in (i + 7)..Len(s) : s[j] = "m"}
                    IN  IF ms = {} THEN 0
                        ELSE (CHOOSE j \in ms : \A k \in ms : j <= k) + 6 - i
    IN  IF len > 0 /\ i + len - 1 <= Len(s)
           /\ IsUnit(SubSeq(s, i, i + len - 1), mode)
        THEN i + len ELSE 0

\* the unit u shows the pixel p
UnitShows(u, mode, p) ==
    IF mode = "None" THEN u = <<Glyph(cvtGray(p))>>
    ELSE IF mode = "ANSI"
        THEN u = SGR(AnsiClass(p.r, p.g, p.b))
                    \o <<Glyph((p.r + p.g + p.b) \div 3)>>
                    \o <<ESC, "[", "0", "m">>
    ELSE IsTrueColorUnit(u, p.r, p.g, p.b, Glyph((p.r + p.g + p.b) \div 3))

\* frame i reads as height rows of width units and a newline, the unit in
\* row y, column x showing the pixel at (y, x)
WellFormed(i) ==
    LET s == asciiFrames[i]
        w == args.width
        n == args.height * (w + 1)
        e[k \in 0..n] ==
            IF k = 0 THEN 1
            ELSE LET q == e[k - 1]
                 IN  IF q = 0 THEN 0
                     ELSE IF k % (w + 1) = 0
                         THEN (IF q <= Len(s) /\ s[q] = "\n" THEN q + 1 ELSE 0)
                     ELSE UnitEnd(s, q, opts.colorMode)
    IN  /\ e[n] = Len(s) + 1
        /\ \A k \in 1..n :
              k % (w + 1) # 0 =>
                  UnitShows(SubSeq(s, e[k - 1], e[k] - 1), opts.colorMode,
                            PixelAt(i, (k - 1) \div (w + 1), (k - 1) % (w + 1)))

\* C8: every frame in the buffer is exactly height rows, top to bottom, each
\* exactly width per-pixel units, left to right, without separator, followed
\* by one newline; a unit is one glyph in mode None and colour escape, glyph,
\* reset in modes ANSI and Full.  Height 1, width 2, mode None, grey samples
\* 0 and 255 give "@", " ", newline.
C8_FrameShape ==
    /\ \A i \in 1..Len(asciiFrames) : WellFormed(i)
    /\ (/\ opts.colorMode = "None" /\ args.height = 1 /\ args.width = 2
        /\ asciiFrames # <<>>
        /\ cvtGray(PixelAt(1, 0, 0)) = 0 /\ cvtGray(PixelAt(1, 0, 1)) = 255)
       => asciiFrames[1] = <<"@", " ", "\n">>

C8_Witness ==
    /\ opts.colorMode = "Full"
    /\ args.height = MaxH /\ args.width = MaxW
    /\ Len(asciiFrames) = MaxFrames
    /\ asciiFrames[1] # asciiFrames[MaxFrames]
    /\ pc = "animate"


(***************************************************************************)
(* Properties of geometry resolution, checked under SpecGeom               *)
(***************************************************************************)
Bound(v, lo, hi) == IF v < lo THEN lo ELSE IF v > hi THEN hi ELSE v

\* C3: after getTargetDimensions has returned, targetHeight is in [20, 120]
\* and targetWidth in [40, 200], whatever the source dimensions and the
\* requested height and width, and no error has been signalled.
C3_DimensionsInBounds ==
    pc # "getTargetDimensions" =>
        /\ opts.targetHeight \in 20..120
        /\ opts.targetWidth \in 40..200
        /\ exitCode = -1 /\ err = ""

C3_Witness ==
    /\ pc = "getDelayMs"
    /\ cap.width = 5 /\ cap.height = 0
    /\ opts.targetHeight = 120 /\ opts.targetWidth = 200

\* C4: for a source of positive height, an unset width resolves to
\* floor(h * (pixelWidth / pixelHeight) / 0.5) for the requested height h,
\* clamped to [40, 200]; a set width is only clamped; the height is clamped
\* to [20, 120].
C4_DerivedWidth ==
    [][(pc = "getTargetDimensions" /\ cap.height > 0) =>
          /\ opts'.targetHeight = Bound(opts.targetHeight, 20, 120)
          /\ opts'.targetWidth =
                IF opts.targetWidth <= 0
                THEN Bound((2 * opts.targetHeight * cap.width) \div cap.height,
                           40, 200)
                ELSE Bound(opts.targetWidth, 40, 200)]_vars

(***************************************************************************)
(* Properties of the whole program, checked under Spec                     *)
(***************************************************************************)
PlaySteps == <<"clear", "write", "flush", "sleep">>

Finished == pc = "exit" /\ exitCode = 0

\* C1: what reaches the terminal is, for frame 0, 1, ..., n-1 in this order
\* and once each: clear, the complete frame text, flush, sleep; a run that
\* ends has done so for every frame of the buffer.
C1_PlaybackOrder ==
    /\ Len(out) <= 4 * Len(asciiFrames)
    /\ \A k \in 1..Len(out) :
          /\ out[k].op = PlaySteps[((k - 1) % 4) + 1]
          /\ out[k].op = "write" =>
                out[k].text = asciiFrames[((k - 1) \div 4) + 1]
    /\ Finished => Len(out) = 4 * Len(asciiFrames)

C1_Witness ==
    /\ Finished
    /\ Len(asciiFrames) >= 2
    /\ asciiFrames[1] # asciiFrames[2]
    /\ Len(out) = 4 * Len(asciiFrames)

Playing == pc \in {"animate", "write", "flush", "sleep"} \/ Finished

C2_Passes ==
    /\ out # <<>> => Playing
    /\ Playing =>
          /\ cap.pos = Len(cap.frames)
          /\ Len(asciiFrames) = Len(cap.frames)
          /\ \A i \in 1..Len(cap.frames) :
                asciiFrames[i] = RenderFrame(cap.frames[i], opts.colorMode,
                                    opts.targetHeight, opts.targetWidth)
    /\ Finished =>
          /\ Len(out) = 4 * Len(asciiFrames)
          /\ \A i \in 1..Len(asciiFrames) :
                out[4 * (i - 1) + 2] = Event("write", asciiFrames[i], 0)

C2_AppendOnly ==
    asciiFrames' # asciiFrames =>
        /\ pc = "loadFrames" /\ pc' = "loadFrames"
        /\ out = <<>>
        /\ Len(asciiFrames') = Len(asciiFrames) + 1
        /\ SubSeq(asciiFrames', 1, Len(asciiFrames)) = asciiFrames

\* C2: nothing is cleared, shown or slept before the decoder is exhausted
\* and every decoded frame is rendered; the buffer then holds one rendered
\* frame per decoded frame in decode order, it only grows by appending while
\* frames are loaded and never changes during playback, and a run that ends
\* has shown every one of them.
C2_TwoPasses == [](C2_Passes) /\ [][C2_AppendOnly]_vars

C2_Witness ==
    /\ pc = "animate" /\ it = 1 /\ out = <<>>
    /\ Len(cap.frames) >= 2
    /\ cap.frames[1] # cap.frames[2]
    /\ Len(asciiFrames) = Len(cap.frames)

\* the frame rate the delay is derived from
Rate ==
    IF opts.framerate # -1 THEN opts.framerate
    ELSE IF cap.fps > 0 THEN cap.fps ELSE 30

\* C7: the delay is 1000 / rate milliseconds (rate: the override, else the
\* positive source fps, else 30) and every sleep suspends for that delay;
\* override 25 sleeps 40 ms.
C7_SleepIsDelay ==
    /\ pc \in {"loadFrames", "animate", "write", "flush", "sleep"} =>
          delayMs = DDiv(1000, Rate)
    /\ \A k \in 1..Len(out) :
          out[k].op = "sleep" =>
              /\ out[k].ms * Rate = 1000
              /\ opts.framerate = 25 => out[k].ms = 40

\* claim-side reading of an option value as a number
NumBody(v) ==
    LET t == Tail_n(v, LeadBlanks(v))
    IN  IF t # <<>> /\ t[1] \in {"+", "-"} THEN Tail(t) ELSE t

IsNegative(v) ==
    LET t == Tail_n(v, LeadBlanks(v)) IN t # <<>> /\ t[1] = "-"

IsNumeric(v) ==
    NumBody(v) # <<>> /\ \A k \in 1..Len(NumBody(v)) : IsDigit(NumBody(v)[k])

NumberIn(v, lo, hi) ==
    /\ IsNumeric(v)
    /\ ~IsNegative(v)
    /\ Len(NumBody(v)) <= 9
    /\ DecValue(NumBody(v)) \in lo..hi

OptionOk(a) ==
    \/ strncmp0(a, OPT_COLOR) /\
          Tail_n(a, 8) \in {<<"n", "o", "n", "e">>, <<"a", "n", "s", "i">>,
                            <<"f", "u", "l", "l">>}
    \/ strncmp0(a, OPT_HEIGHT) /\ NumberIn(Tail_n(a, 9), 20, 120)
    \/ strncmp0(a, OPT_WIDTH) /\ NumberIn(Tail_n(a, 8), 40, 200)
    \/ strncmp0(a, OPT_FRAMERATE) /\ NumberIn(Tail_n(a, 12), 1, 120)
    \/ a = OPT_HELP

InvalidOptions == \E i \in 2..Len(argv) : ~OptionOk(argv[i])

Running ==
    pc \in {"getTargetDimensions", "getDelayMs", "loadFrames", "animate",
            "write", "flush", "sleep"}

\* C10: with an unknown option, an unknown colour mode, a non-numeric or
\* out-of-bounds value, or a video that cannot be opened, the program exits
\* with status 1 and never resolves geometry, renders, clears or plays;
\* whenever it does run, the options are a valid mode, a height in
\* [20, 120], a width in [40, 200] or unset, a framerate in [1, 120] or unset.
C10_Validation ==
    /\ (InvalidOptions \/ ~cap.opened) =>
          /\ ~Running
          /\ asciiFrames = <<>> /\ out = <<>>
          /\ pc = "exit" => exitCode = 1
    /\ Running =>
          /\ opts.colorMode \in {"None", "ANSI", "Full"}
          /\ opts.targetHeight \in 20..120
          /\ opts.targetWidth \in 40..200 \/ opts.targetWidth = 0
          /\ opts.framerate \in 1..120 \/ opts.framerate = -1

====
